---- MODULE Spec2Model ----
(***************************************************************************)
(* A model of crates/interpreter/src/interpreter.rs: the Interpreter       *)
(* driver with its two engines (the stack VM stepper and the RISC-V        *)
(* emulator adapter), the outcome reconciliation functions and the memory  *)
(* hand-off.                                                               *)
(*                                                                         *)
(* Bytes are naturals 0..255, byte strings are sequences of bytes, a U256  *)
(* is its 32-byte big-endian representation, an Address its 20 bytes.      *)
(* An Option is a record with a tag "None" or "Some".                      *)
(***************************************************************************)
EXTENDS Integers, Sequences, FiniteSets, TLC

(***************************************************************************)
(* Bounds of the model.                                                    *)
(***************************************************************************)
\* Capacity of the operand stack.  The program's limit is 1024 entries; the
\* model scales it down so that a full stack is reached.
STACK_LIMIT == 2
\* Bytes of emulator DRAM; addresses are 0 .. DramSize - 1.
DramSize == 40
\* The gas limit the interpreter is constructed with (besides 0).
GasLimit == 7
\* Cap on gas.remaining: an outcome is only inserted while its credit fits.
MaxGas == 9
\* Cap on gas.refunded.
MaxRefund == 2

(***************************************************************************)
(* Program constants.                                                      *)
(***************************************************************************)
\* Bytes of a memory word (resize_memory rounds to it).
WordSize == 32
\* Bytes of an address read from DRAM by the Call syscall.
AddressLen == 20
\* The sentinel first byte of a RISC image.
RiscvMarker == 255

NoneV == [tag |-> "None"]
Some(v) == [tag |-> "Some", val |-> v]

Zeros(n) == [i \in 1..n |-> 0]
Min(a, b) == IF a < b THEN a ELSE b

\* s[from+1 .. to], the half-open byte range [from, to) of a buffer.
Slice(s, from, to) == [i \in 1..(to - from) |-> s[from + i]]
Prefix(s, n) == Slice(s, 0, n)

\* U256::ZERO and U256::from(n) for a byte-sized n, big-endian.
U256_ZERO == Zeros(32)
U256_from(n) == Zeros(31) \o <<n>>

\* Address::into_word: the 20 bytes left-padded with 12 zero bytes.
into_word(address) == Zeros(12) \o address

\* Option::unwrap_or_default on an Option<Address>.
unwrap_or_default(opt) == IF opt.tag = "Some" THEN opt.val ELSE Zeros(AddressLen)

(***************************************************************************)
(* InstructionResult and its classes (the return_ok! and return_revert!    *)
(* patterns, is_revert).                                                   *)
(***************************************************************************)
return_ok == {"Continue", "Stop", "Return", "SelfDestruct", "ReturnContract"}
return_revert == {"Revert", "CallTooDeep", "OutOfFunds"}
is_revert(r) == r \in return_revert

(***************************************************************************)
(* Gas: remaining and refunded.                                            *)
(***************************************************************************)
Gas_new(limit) == [limit |-> limit, remaining |-> limit, refunded |-> 0]
erase_cost(g, returned) == [g EXCEPT !.remaining = @ + returned]
record_refund(g, refund) == [g EXCEPT !.refunded = @ + refund]
\* u64 arithmetic, with the 64 bits scaled to U64Bits.
U64Bits == 16
U64Modulus == 2 ^ U64Bits
wrapping_sub(a, b) == (a - b + U64Modulus) % U64Modulus
\* record_cost: the deduction, and whether it fit.
record_cost_ok(g, cost) == g.remaining >= cost
record_cost(g, cost) == IF record_cost_ok(g, cost) THEN [g EXCEPT !.remaining = @ - cost] ELSE g

(***************************************************************************)
(* SharedMemory.                                                           *)
(***************************************************************************)
EMPTY_SHARED_MEMORY == << >>
num_words(len) == (len + (WordSize - 1)) \div WordSize
memory_gas(words) == 3 * words + (words * words) \div 512
current_expansion_cost(memory) == memory_gas(num_words(Len(memory)))
\* SharedMemory::set is defined when the range lies inside the buffer or the
\* value is empty.
set_ok(memory, offset, value) == value = << >> \/ offset + Len(value) <= Len(memory)
set(memory, offset, value) ==
    [i \in 1..Len(memory) |->
        IF i > offset /\ i <= offset + Len(value) THEN value[i - offset] ELSE memory[i]]
\* SharedMemory::resize: zero-extends or truncates to new_size bytes.
resize(memory, new_size) ==
    [i \in 1..new_size |-> IF i <= Len(memory) THEN memory[i] ELSE 0]

(***************************************************************************)
(* The environment: bytecodes, the instruction table, the emulator, the    *)
(* host and the outcomes a caller hands back.                              *)
(***************************************************************************)
\* The caller-supplied instruction table, by handler name.
instruction_table ==
    (0 :> "STOP") @@ (91 :> "JUMPDEST") @@ (240 :> "CREATE") @@ (241 :> "CALL")
    @@ (243 :> "RETURN") @@ (236 :> "EOFCREATE")
Opcodes == DOMAIN instruction_table

\* contract.target_address and the addresses a create can return.
TargetAddress == Zeros(AddressLen - 1) \o <<7>>
CalleeAddress == Zeros(AddressLen - 1) \o <<170>>
CreatedAddress == <<1>> \o Zeros(AddressLen - 2) \o <<2>>

\* host.env()
HostEnv == [tx |-> [gas_limit |-> 5]]

\* Integer registers read by the adapter: t0 = x5, a0 .. a5 = x10 .. x15.
T0 == 5
A0 == 10
A1 == 11
A2 == 12
A3 == 13
A4 == 14
A5 == 15
Regs(t0, a0, a1, a2, a3, a4, a5) ==
    (T0 :> t0) @@ (A0 :> a0) @@ (A1 :> a1) @@ (A2 :> a2) @@ (A3 :> a3) @@ (A4 :> a4) @@ (A5 :> a5)

\* The emulated program, one image byte per step: an ecall with the registers
\* the program loaded before it, or a store to DRAM.
Ecall(t0, a0, a1, a2, a3, a4, a5) == [kind |-> "ecall", xregs |-> Regs(t0, a0, a1, a2, a3, a4, a5)]
Store(addr, bytes) == [kind |-> "store", addr |-> addr, bytes |-> bytes]
StoreReg(addr) == [kind |-> "store_reg", addr |-> addr]
Instructions ==
    <<Ecall(0, 4, 2, 0, 0, 0, 0),              \* 1: Return of DRAM[4, 6)
      Ecall(0, DramSize, 0, 0, 0, 0, 0),       \* 2: Return of nothing, offset at the end
      Ecall(0, DramSize, 1, 0, 0, 0, 0),       \* 3: Return past the end of DRAM
      Ecall(1, 1, 0, 0, 0, 0, 0),              \* 4: SLoad of key 1
      Ecall(2, 1, 5, 0, 0, 0, 0),              \* 5: SStore of 5 at key 1
      Ecall(3, 0, 1, 20, 2, 4, 2),             \* 6: Call, 2 bytes back at DRAM[4, 6)
      Ecall(3, 0, 1, 20, 2, 4, 33),            \* 7: Call, 33 bytes back at DRAM[4, 37)
      Ecall(3, 0, 1, 20, 2, 6, 0),             \* 8: Call, nothing back
      Ecall(3, DramSize, 1, 20, 2, 4, 2),      \* 9: Call, callee address past the end
      Ecall(3, 0, 1, DramSize, 2, 4, 2),       \* 10: Call, arguments past the end
      Ecall(4, 0, 0, 0, 0, 0, 0),              \* 11: Revert
      Ecall(9, 0, 0, 0, 0, 0, 0),              \* 12: an unknown syscall
      Store(4, <<5, 6>>),                      \* 13: DRAM[4, 6) := 5, 6
      Ecall(3, 0, 1, 20, 2, DramSize, 2),      \* 14: Call, return range past the end
      StoreReg(8),                             \* 15: DRAM[8, 16) := a0, little-endian
      Ecall(0, 8, 8, 0, 0, 0, 0),              \* 16: Return of DRAM[8, 16)
      Ecall(2, 1, 300, 0, 0, 0, 0)>>           \* 17: SStore of 300 at key 1

\* The images: every program of at most MaxImageLen steps, and three longer
\* ones that suspend on a Call several times.
MaxImageLen == 2
RECURSIVE ImagesOfLen(_)
ImagesOfLen(n) ==
    IF n = 0 THEN {<< >>}
    ELSE {Append(img, i) : img \in ImagesOfLen(n - 1), i \in DOMAIN Instructions}
Images ==
    UNION {ImagesOfLen(n) : n \in 1..MaxImageLen}
    \cup {<<6, 12, 6, 12, 6>>, <<7, 12, 1>>, <<6, 12, 7, 12, 8, 12, 1>>,
          <<5, 4, 15, 16>>, <<5, 17, 4, 15, 16>>}

\* Analysed bytecodes: stack-VM codes (the last byte is STOP, 0x00) and RISC
\* images behind the 0xFF marker.
Bytecodes ==
    { <<0>>, <<91, 0>>, <<91, 241, 240, 236, 241, 0>>, <<236, 243, 0>>,
      <<241, 240, 241, 241, 0>>, <<240, 241, 240, 240, 0>>, <<243, 0>> }
    \cup {<<RiscvMarker>> \o img : img \in Images}

\* The DRAM the image is loaded into: the callee address at 0, zeros after.
InitialDram == CalleeAddress \o Zeros(DramSize - AddressLen)

\* setup_from_elf(&bytecode[1..], &contract.input)
setup_from_elf(image) ==
    [image |-> image, epc |-> 0, xregs |-> Regs(0, 0, 0, 0, 0, 0, 0), dram |-> InitialDram]

\* u64::to_le_bytes, n bytes of it.
RECURSIVE to_le_bytes(_, _)
to_le_bytes(v, n) == IF n = 0 THEN << >> ELSE <<v % 256>> \o to_le_bytes(v \div 256, n - 1)

\* Emulator::start: the program runs from where it stopped until it raises
\* an exception: an ecall, a byte that is no instruction, or the fetch past
\* the end of the image.
RECURSIVE EmuStart(_)
EmuStart(emu) ==
    IF emu.epc >= Len(emu.image)
    THEN [exception |-> "InstructionAccessFault", emu |-> emu]
    ELSE IF emu.image[emu.epc + 1] \notin DOMAIN Instructions
    THEN [exception |-> "IllegalInstruction", emu |-> emu]
    ELSE LET instr == Instructions[emu.image[emu.epc + 1]]
         IN  IF instr.kind = "ecall"
             THEN [exception |-> "EnvironmentCallFromMMode",
                   emu |-> [emu EXCEPT !.epc = @ + 1, !.xregs = instr.xregs]]
             ELSE IF instr.kind = "store"
             THEN EmuStart([emu EXCEPT !.epc = @ + 1,
                                       !.dram = set(@, instr.addr, instr.bytes)])
             ELSE EmuStart([emu EXCEPT !.epc = @ + 1,
                                       !.dram = set(@, instr.addr,
                                                    to_le_bytes(emu.xregs[A0], 8))])

\* Bus::get_dram_slice(range): Ok exactly when the range lies inside DRAM.
get_dram_slice_ok(dram, start, end) == start <= end /\ end <= Len(dram)
get_dram_slice(dram, start, end) == Slice(dram, start, end)

\* Host storage: sload answers Some(value) for a slot the host knows and
\* None otherwise.
sload(store, address, key) ==
    IF <<address, key>> \in DOMAIN store THEN Some(store[<<address, key>>]) ELSE NoneV
sstore(store, address, key, value) ==
    [k \in DOMAIN store \cup {<<address, key>>} |->
        IF k = <<address, key>> THEN value ELSE store[k]]

\* U256::from_le_bytes and U256::from of a u64, as big-endian bytes.
Reverse(s) == [i \in 1..Len(s) |-> s[Len(s) + 1 - i]]
U256_from_le_bytes(le) == Zeros(32 - Len(le)) \o Reverse(le)
U256_from_u64(v) == U256_from_le_bytes(to_le_bytes(v, 8))
\* U256::as_limbs()[0]: the low 64 bits, for values below 2^16.
RECURSIVE be_value(_)
be_value(bytes) ==
    IF bytes = << >> THEN 0 ELSE be_value(SubSeq(bytes, 1, Len(bytes) - 1)) * 256 + bytes[Len(bytes)]
low_limb(word) == be_value(SubSeq(word, 31, 32))

\* Outcomes of sub-calls and creates handed to insert_*_outcome.
OutcomeGas == {[remaining |-> 0, refunded |-> 0], [remaining |-> 2, refunded |-> 1]}
CallOutcomes ==
    { [result |-> [result |-> r, output |-> d.output, gas |-> g],
       memory_offset |-> d.memory_offset] :
        r \in {"Return", "Stop", "Revert", "OutOfGas", "FatalExternalError"},
        g \in OutcomeGas,
        d \in { [output |-> << >>, memory_offset |-> [start |-> 0, end |-> 2]],
                [output |-> <<222, 173>>, memory_offset |-> [start |-> 0, end |-> 2]],
                [output |-> <<1, 2, 3>>, memory_offset |-> [start |-> 1, end |-> 3]],
                [output |-> <<222, 173>>, memory_offset |-> [start |-> 0, end |-> 33]],
                [output |-> <<1, 2, 3>>, memory_offset |-> [start |-> 0, end |-> 0]] } }
CreateOutcomes ==
    { [result |-> [result |-> r, output |-> o, gas |-> g], address |-> a] :
        r \in {"Return", "Revert", "OutOfFunds", "OutOfGas", "FatalExternalError"},
        o \in {<< >>, <<222, 173>>},
        g \in {[remaining |-> 2, refunded |-> 1]},
        a \in {NoneV, Some(CreatedAddress)} }
EOFCreateOutcomes ==
    { [result |-> [result |-> r, output |-> o, gas |-> g], address |-> CreatedAddress] :
        r \in {"ReturnContract", "Return", "Stop", "Revert", "OutOfFunds", "OutOfGas",
               "FatalExternalError"},
        o \in {<< >>, <<222, 173>>},
        g \in {[remaining |-> 2, refunded |-> 1]} }

memory_start(outcome) == outcome.memory_offset.start
memory_length(outcome) == outcome.memory_offset.end - outcome.memory_offset.start

(***************************************************************************)
(* State.                                                                  *)
(***************************************************************************)
VARIABLES
    bytecode,             \* Interpreter.bytecode
    instruction_pointer,  \* offset of Interpreter.instruction_pointer in bytecode
    gas,                  \* Interpreter.gas
    instruction_result,   \* Interpreter.instruction_result
    shared_memory,        \* Interpreter.shared_memory
    stack,                \* Interpreter.stack
    return_data_buffer,   \* Interpreter.return_data_buffer
    next_action,          \* Interpreter.next_action
    riscv_emulator,       \* Interpreter.riscv_emulator: Option<RVEmu>
    resize_mem,           \* run's local resize_mem
    pc,                   \* where control is: outside run, in one of its loops, ...
    returned,             \* the action the last run returned
    caller_memory,        \* the SharedMemory the caller holds
    storage,              \* the host's storage
    last,                 \* the last operation, its argument and the state before it
    invoked,              \* the engines the current run has invoked so far
    first_call,           \* the registers of the first Call trap of the current run
    resumed,              \* whether emu.start() was invoked since the latest Call trap
    answer,               \* the call outcome inserted since the last run, and its memory
    entry_result          \* instruction_result when the current run was entered

vars ==
    <<bytecode, instruction_pointer, gas, instruction_result, shared_memory, stack,
      return_data_buffer, next_action, riscv_emulator, resize_mem, pc, returned,
      caller_memory, storage, last, invoked, first_call, resumed, answer,
      entry_result>>

\* The state an operation starts from, kept for the claims.
Before == [gas |-> gas, stack |-> stack, instruction_result |-> instruction_result,
           memory |-> caller_memory, return_data_buffer |-> return_data_buffer,
           shared_memory |-> shared_memory]

(***************************************************************************)
(* Interpreter::new                                                        *)
(***************************************************************************)
\* A faulty new_riscv_emulator: an emulator behind every first byte but 0x00.
new_riscv_emulator_on_any_byte(code) ==
    IF code[1] # 0
    THEN Some([emu |-> setup_from_elf(Tail(code)), returned_data_destiny |-> NoneV])
    ELSE NoneV

new_riscv_emulator(code) ==
    IF code[1] = RiscvMarker
    THEN Some([emu |-> setup_from_elf(Tail(code)), returned_data_destiny |-> NoneV])
    ELSE NoneV

Init ==
    /\ bytecode \in Bytecodes
    /\ instruction_pointer = 0
    /\ gas \in {Gas_new(0), Gas_new(GasLimit)}
    /\ instruction_result = "Continue"
    /\ shared_memory = EMPTY_SHARED_MEMORY
    /\ stack = << >>
    /\ return_data_buffer = << >>
    /\ next_action = NoneV
    /\ riscv_emulator = new_riscv_emulator(bytecode)
    /\ resize_mem = NoneV
    /\ pc = "idle"
    /\ returned = NoneV
    /\ caller_memory = EMPTY_SHARED_MEMORY
    /\ storage = << >>
    /\ last = [op |-> "new"]
    /\ invoked = {}
    /\ first_call = NoneV
    /\ resumed = FALSE
    /\ answer = NoneV
    /\ entry_result = "Continue"

(***************************************************************************)
(* Fatal failure (panic!, a failed unwrap or assert!): control never       *)
(* returns to the caller.                                                  *)
(***************************************************************************)
Panicked == pc = "panicked"

\* The push! and push_b256! macros: push, or record the stack error and
\* return from the enclosing function; ir is instruction_result otherwise.
push(word, ir) ==
    IF Len(stack) < STACK_LIMIT
    THEN /\ stack' = Append(stack, word)
         /\ instruction_result' = ir
    ELSE /\ stack' = stack
         /\ instruction_result' = "StackOverflow"

\* The caps that keep the gas meter finite.
GasFits(outcome) ==
    /\ gas.remaining + outcome.result.gas.remaining <= MaxGas
    /\ gas.refunded + outcome.result.gas.refunded <= MaxRefund

(***************************************************************************)
(* Interpreter::insert_create_outcome                                      *)
(***************************************************************************)
\* The buffer kept for the caller: the output of a reverted create.
create_return_data(create_outcome) ==
    IF is_revert(create_outcome.result.result) THEN create_outcome.result.output ELSE << >>

\* The arm of the match on the outcome's instruction result.
create_arm(result) ==
    CASE result \in return_ok -> "ok"
      [] result \in return_revert -> "revert"
      [] result = "FatalExternalError" -> "fatal"
      [] OTHER -> "other"

\* A faulty create_word: the address left-aligned in the word.
create_word_left_aligned(create_outcome) ==
    IF create_arm(create_outcome.result.result) = "ok"
    THEN unwrap_or_default(create_outcome.address) \o Zeros(WordSize - AddressLen)
    ELSE U256_ZERO

\* The word an arm pushes.
create_word(create_outcome) ==
    IF create_arm(create_outcome.result.result) = "ok"
    THEN into_word(unwrap_or_default(create_outcome.address))
    ELSE U256_ZERO

\* The gas an arm credits once its push went through.
create_gas(g, create_outcome) ==
    CASE create_arm(create_outcome.result.result) = "ok" ->
            record_refund(erase_cost(g, create_outcome.result.gas.remaining),
                          create_outcome.result.gas.refunded)
      [] create_arm(create_outcome.result.result) = "revert" ->
            erase_cost(g, create_outcome.result.gas.remaining)
      [] OTHER -> g

insert_create_outcome(create_outcome) ==
    /\ pc = "idle"
    /\ returned.tag = "Create"
    /\ GasFits(create_outcome)
    /\ last' = [op |-> "insert_create_outcome", outcome |-> create_outcome, before |-> Before]
    /\ return_data_buffer' = create_return_data(create_outcome)
    /\ IF create_arm(create_outcome.result.result) = "fatal"
       THEN /\ instruction_result' = "Continue"
            /\ pc' = "panicked"
            /\ UNCHANGED <<stack, gas>>
       ELSE /\ push(create_word(create_outcome), "Continue")
            /\ gas' = IF Len(stack) < STACK_LIMIT THEN create_gas(gas, create_outcome) ELSE gas
            /\ pc' = "idle"
    /\ returned' = NoneV
    /\ UNCHANGED <<bytecode, instruction_pointer, shared_memory, next_action,
                   riscv_emulator, resize_mem, caller_memory, storage,
                   invoked, first_call, resumed, answer, entry_result>>

(***************************************************************************)
(* Interpreter::insert_eofcreate_outcome                                   *)
(***************************************************************************)
\* A faulty eofcreate_return_data: the create's rule, any revert-class result.
eofcreate_return_data_of_any_revert(create_outcome) ==
    IF is_revert(create_outcome.result.result) THEN create_outcome.result.output ELSE << >>

eofcreate_return_data(create_outcome) ==
    IF create_outcome.result.result = "Revert" THEN create_outcome.result.output ELSE << >>

\* A faulty eofcreate_arm: the create's rule, every generic success.
eofcreate_arm_of_any_success(result) ==
    CASE result \in return_ok -> "ok"
      [] result \in return_revert -> "revert"
      [] result = "FatalExternalError" -> "fatal"
      [] OTHER -> "other"

eofcreate_arm(result) ==
    CASE result = "ReturnContract" -> "ok"
      [] result \in return_revert -> "revert"
      [] result = "FatalExternalError" -> "fatal"
      [] OTHER -> "other"

eofcreate_word(create_outcome) ==
    IF eofcreate_arm(create_outcome.result.result) = "ok"
    THEN into_word(create_outcome.address)
    ELSE U256_ZERO

eofcreate_gas(g, create_outcome) ==
    CASE eofcreate_arm(create_outcome.result.result) = "ok" ->
            record_refund(erase_cost(g, create_outcome.result.gas.remaining),
                          create_outcome.result.gas.refunded)
      [] eofcreate_arm(create_outcome.result.result) = "revert" ->
            erase_cost(g, create_outcome.result.gas.remaining)
      [] OTHER -> g

\* A faulty insert_eofcreate_outcome: the word is pushed whatever the stack
\* holds.
insert_eofcreate_outcome_past_the_limit(create_outcome) ==
    /\ pc = "idle"
    /\ returned.tag = "EOFCreate"
    /\ GasFits(create_outcome)
    /\ last' = [op |-> "insert_eofcreate_outcome", outcome |-> create_outcome,
                before |-> Before]
    /\ return_data_buffer' = eofcreate_return_data(create_outcome)
    /\ IF eofcreate_arm(create_outcome.result.result) = "fatal"
       THEN /\ pc' = "panicked"
            /\ UNCHANGED <<stack, gas, instruction_result>>
       ELSE /\ stack' = Append(stack, eofcreate_word(create_outcome))
            /\ gas' = eofcreate_gas(gas, create_outcome)
            /\ pc' = "idle"
            /\ UNCHANGED instruction_result
    /\ returned' = NoneV
    /\ UNCHANGED <<bytecode, instruction_pointer, shared_memory, next_action,
                   riscv_emulator, resize_mem, caller_memory, storage,
                   invoked, first_call, resumed, answer, entry_result>>

insert_eofcreate_outcome(create_outcome) ==
    /\ pc = "idle"
    /\ returned.tag = "EOFCreate"
    /\ GasFits(create_outcome)
    /\ last' = [op |-> "insert_eofcreate_outcome", outcome |-> create_outcome,
                before |-> Before]
    /\ return_data_buffer' = eofcreate_return_data(create_outcome)
    /\ IF eofcreate_arm(create_outcome.result.result) = "fatal"
       THEN /\ pc' = "panicked"
            /\ UNCHANGED <<stack, gas, instruction_result>>
       ELSE /\ push(eofcreate_word(create_outcome), instruction_result)
            /\ gas' = IF Len(stack) < STACK_LIMIT
                      THEN eofcreate_gas(gas, create_outcome) ELSE gas
            /\ pc' = "idle"
    /\ returned' = NoneV
    /\ UNCHANGED <<bytecode, instruction_pointer, shared_memory, next_action,
                   riscv_emulator, resize_mem, caller_memory, storage,
                   invoked, first_call, resumed, answer, entry_result>>

(***************************************************************************)
(* Interpreter::insert_call_outcome, on the memory the caller holds        *)
(***************************************************************************)
\* A faulty call_arm: the fatal result falls through to the last arm.
call_arm_without_fatal(result) ==
    CASE result \in return_ok -> "ok"
      [] result \in return_revert -> "revert"
      [] OTHER -> "other"

call_arm(result) ==
    CASE result \in return_ok -> "ok"
      [] result \in return_revert -> "revert"
      [] result = "FatalExternalError" -> "fatal"
      [] OTHER -> "other"

call_word(call_outcome) ==
    IF call_arm(call_outcome.result.result) = "ok" THEN U256_from(1) ELSE U256_ZERO

\* Faulty call_gas: the success arm forgets the refund; the revert arm
\* accumulates it.
call_gas_without_refund(g, call_outcome) ==
    IF call_arm(call_outcome.result.result) \in {"ok", "revert"}
    THEN erase_cost(g, call_outcome.result.gas.remaining)
    ELSE g
call_gas_refund_on_revert(g, call_outcome) ==
    IF call_arm(call_outcome.result.result) \in {"ok", "revert"}
    THEN record_refund(erase_cost(g, call_outcome.result.gas.remaining),
                       call_outcome.result.gas.refunded)
    ELSE g

call_gas(g, call_outcome) ==
    CASE call_arm(call_outcome.result.result) = "ok" ->
            record_refund(erase_cost(g, call_outcome.result.gas.remaining),
                          call_outcome.result.gas.refunded)
      [] call_arm(call_outcome.result.result) = "revert" ->
            erase_cost(g, call_outcome.result.gas.remaining)
      [] OTHER -> g

\* The bytes an arm copies into the memory, at memory_start.
call_target_len(call_outcome) ==
    Min(memory_length(call_outcome), Len(call_outcome.result.output))
call_data(call_outcome) ==
    IF call_arm(call_outcome.result.result) \in {"ok", "revert"}
    THEN Prefix(call_outcome.result.output, call_target_len(call_outcome))
    ELSE << >>

insert_call_outcome(call_outcome) ==
    LET arm == call_arm(call_outcome.result.result)
        out_offset == memory_start(call_outcome)
        data == call_data(call_outcome)
    IN  /\ pc = "idle"
        /\ returned.tag = "Call"
        /\ GasFits(call_outcome)
        /\ last' = [op |-> "insert_call_outcome", outcome |-> call_outcome, before |-> Before]
        /\ return_data_buffer' = call_outcome.result.output
        /\ IF arm = "fatal"
           THEN /\ instruction_result' = "Continue"
                /\ pc' = "panicked"
                /\ UNCHANGED <<stack, gas, caller_memory>>
           ELSE /\ gas' = call_gas(gas, call_outcome)
                /\ IF set_ok(caller_memory, out_offset, data)
                   THEN /\ caller_memory' = set(caller_memory, out_offset, data)
                        /\ push(call_word(call_outcome), "Continue")
                        /\ pc' = "idle"
                   ELSE /\ instruction_result' = "Continue"
                        /\ pc' = "panicked"
                        /\ UNCHANGED <<caller_memory, stack>>
        /\ returned' = NoneV
        /\ answer' = Some([outcome |-> call_outcome, memory |-> caller_memory',
                           action |-> returned])
        /\ UNCHANGED <<bytecode, instruction_pointer, shared_memory, next_action,
                       riscv_emulator, resize_mem, storage, invoked, first_call, resumed,
                       entry_result>>

(***************************************************************************)
(* Interpreter::take_memory                                                *)
(***************************************************************************)
\* A faulty take_memory: the buffer is handed out and also left in the field.
take_memory_leaving_the_buffer ==
    /\ pc = "idle"
    /\ caller_memory' = shared_memory
    /\ last' = [op |-> "take_memory", held |-> shared_memory]
    /\ UNCHANGED <<bytecode, instruction_pointer, gas, instruction_result, stack,
                   return_data_buffer, next_action, riscv_emulator, resize_mem, pc,
                   returned, storage, invoked, first_call, resumed, answer, entry_result,
                   shared_memory>>

take_memory ==
    /\ pc = "idle"
    /\ caller_memory' = shared_memory
    /\ shared_memory' = EMPTY_SHARED_MEMORY
    /\ last' = [op |-> "take_memory", held |-> shared_memory]
    /\ UNCHANGED <<bytecode, instruction_pointer, gas, instruction_result, stack,
                   return_data_buffer, next_action, riscv_emulator, resize_mem, pc,
                   returned, storage, invoked, first_call, resumed, answer, entry_result>>

(***************************************************************************)
(* resize_memory(memory, gas, new_size): whether the gas was enough, and   *)
(* the memory and gas afterwards.                                          *)
(***************************************************************************)
\* A faulty resize_memory: the buffer grows to new_size, not to whole words.
resize_memory_to_the_byte(memory, g, new_size) ==
    LET cost == wrapping_sub(memory_gas(num_words(new_size)), current_expansion_cost(memory))
        success == record_cost_ok(g, cost)
    IN  {[panics |-> FALSE,
          success |-> success,
          gas |-> record_cost(g, cost),
          memory |-> IF success THEN resize(memory, new_size) ELSE memory]}

\* A faulty resize_memory: the buffer grows when the gas allows, and the gas
\* is not charged.
resize_memory_free_of_charge(memory, g, new_size) ==
    LET cost == wrapping_sub(memory_gas(num_words(new_size)), current_expansion_cost(memory))
        success == record_cost_ok(g, cost)
    IN  {[panics |-> FALSE,
          success |-> success,
          gas |-> g,
          memory |-> IF success THEN resize(memory, num_words(new_size) * WordSize)
                     ELSE memory]}

\* new_cost - current_cost is a u64 subtraction: when it underflows, a build
\* with overflow checks panics and a build without them goes on with the
\* wrapped difference.  resize_memory is the set of the outcomes.
resize_memory(memory, g, new_size) ==
    LET new_words == num_words(new_size)
        new_cost == memory_gas(new_words)
        current_cost == current_expansion_cost(memory)
        cost == wrapping_sub(new_cost, current_cost)
        success == record_cost_ok(g, cost)
        wrapped == [panics |-> FALSE,
                    success |-> success,
                    gas |-> record_cost(g, cost),
                    memory |-> IF success THEN resize(memory, new_words * WordSize)
                               ELSE memory]
        panicked == [panics |-> TRUE, success |-> FALSE, gas |-> g, memory |-> memory]
    IN  IF new_cost >= current_cost THEN {wrapped} ELSE {wrapped, panicked}

\* Interpreter::resize_memory(new_size), called on an interpreter at rest.
Interpreter_resize_memory(new_size) ==
    /\ pc = "idle"
    /\ \E resized \in resize_memory(shared_memory, gas, new_size) :
          /\ gas' = resized.gas
          /\ shared_memory' = resized.memory
          /\ pc' = IF resized.panics THEN "panicked" ELSE "idle"
          /\ last' = [op |-> "resize_memory", new_size |-> new_size, before |-> Before,
                      success |-> resized.success]
    /\ UNCHANGED <<bytecode, instruction_pointer, instruction_result, stack,
                   return_data_buffer, next_action, riscv_emulator, resize_mem, returned,
                   caller_memory, storage, invoked, first_call, resumed, answer,
                   entry_result>>

(***************************************************************************)
(* Interpreter::run, from its entry to the loop of the engine: next_action *)
(* is cleared, the memory moves in, and in RISC mode the pending           *)
(* returned_data_destiny is taken and filled from the memory's prefix.     *)
(***************************************************************************)
\* The hand-off: whether both slices exist, and the DRAM after the copy.
handoff_ok(dram, destiny, memory) ==
    /\ get_dram_slice_ok(dram, destiny.start, destiny.end)
    /\ destiny.end - destiny.start <= Len(memory)
handoff(dram, destiny, memory) ==
    set(dram, destiny.start, Prefix(memory, destiny.end - destiny.start))

\* Interpreter::program_counter: the offset of the cursor from the start of
\* the bytecode.
program_counter == instruction_pointer

run_enter ==
    LET riscv == riscv_emulator.tag = "Some"
        destiny == IF riscv THEN riscv_emulator.val.returned_data_destiny ELSE NoneV
        copies == destiny.tag = "Some"
        fails == copies /\ ~handoff_ok(riscv_emulator.val.emu.dram, destiny.val, caller_memory)
    IN  /\ pc = "idle"
        /\ next_action' = NoneV
        /\ shared_memory' = caller_memory
        /\ caller_memory' = EMPTY_SHARED_MEMORY
        /\ resize_mem' = NoneV
        /\ riscv_emulator' =
              IF ~copies THEN riscv_emulator
              ELSE IF fails
              THEN Some([riscv_emulator.val EXCEPT !.returned_data_destiny = NoneV])
              ELSE Some([riscv_emulator.val EXCEPT
                           !.emu.dram = handoff(@, destiny.val, caller_memory),
                           !.returned_data_destiny = NoneV])
        /\ pc' = IF fails THEN "panicked" ELSE IF riscv THEN "trap_loop" ELSE "main_loop"
        /\ last' = [op |-> "run_enter", destiny |-> destiny, memory |-> caller_memory,
                    stack |-> stack, gas |-> gas, cursor |-> program_counter,
                    return_data_buffer |-> return_data_buffer,
                    previous |-> returned, previous_entry |-> entry_result]
        /\ invoked' = {}
        /\ first_call' = NoneV
        /\ entry_result' = instruction_result
        /\ UNCHANGED <<bytecode, instruction_pointer, gas, instruction_result, stack,
                       return_data_buffer, returned, storage, resumed, answer>>

(***************************************************************************)
(* One turn of the trap loop: emu.start() and the arm of its exception.    *)
(* emu is the emulator as start() left it.                                 *)
(***************************************************************************)
Trapped(emu, exception) ==
    [op |-> "trap", exception |-> exception, xregs |-> emu.xregs, storage |-> storage]
WithEmu(emu) == Some([riscv_emulator.val EXCEPT !.emu = emu])

syscall_return(emu) ==
    LET ret_offset == emu.xregs[A0]
        ret_size == emu.xregs[A1]
    IN  /\ emu.xregs[T0] = 0
        /\ riscv_emulator' = WithEmu(emu)
        /\ IF ret_size # 0 /\ ~get_dram_slice_ok(emu.dram, ret_offset, ret_offset + ret_size)
           THEN /\ pc' = "panicked"
                /\ UNCHANGED next_action
           ELSE /\ next_action' =
                      [tag |-> "Return",
                       result |-> [result |-> "Return",
                                   output |-> IF ret_size # 0
                                              THEN get_dram_slice(emu.dram, ret_offset,
                                                                  ret_offset + ret_size)
                                              ELSE << >>,
                                   gas |-> gas]]
                /\ pc' = "after_loop"
        /\ UNCHANGED <<instruction_result, storage, resize_mem>>

syscall_sload(emu) ==
    LET key == emu.xregs[A0]
        loaded == sload(storage, TargetAddress, U256_from_u64(key))
    IN  /\ emu.xregs[T0] = 1
        /\ IF loaded.tag = "Some"
           THEN /\ riscv_emulator' = WithEmu([emu EXCEPT !.xregs[A0] = low_limb(loaded.val)])
                /\ pc' = "trap_loop"
                /\ UNCHANGED instruction_result
           ELSE /\ riscv_emulator' = WithEmu(emu)
                /\ instruction_result' = "Revert"
                /\ pc' = "after_loop"
        /\ UNCHANGED <<next_action, storage, resize_mem>>

\* A faulty syscall_sstore: the key and the value change places.
syscall_sstore_swapped(emu) ==
    LET key == emu.xregs[A0]
        value == emu.xregs[A1]
    IN  /\ emu.xregs[T0] = 2
        /\ riscv_emulator' = WithEmu(emu)
        /\ storage' = sstore(storage, TargetAddress, U256_from_u64(value), U256_from_u64(key))
        /\ pc' = "trap_loop"
        /\ UNCHANGED <<next_action, instruction_result, resize_mem>>

syscall_sstore(emu) ==
    LET key == emu.xregs[A0]
        value == emu.xregs[A1]
    IN  /\ emu.xregs[T0] = 2
        /\ riscv_emulator' = WithEmu(emu)
        /\ storage' = sstore(storage, TargetAddress, U256_from_u64(key), U256_from_u64(value))
        /\ pc' = "trap_loop"
        /\ UNCHANGED <<next_action, instruction_result, resize_mem>>

syscall_call(emu) ==
    LET a0 == emu.xregs[A0]
        value == emu.xregs[A1]
        args_offset == emu.xregs[A2]
        args_size == emu.xregs[A3]
        ret_offset == emu.xregs[A4]
        ret_size == emu.xregs[A5]
        address == get_dram_slice(emu.dram, a0, a0 + AddressLen)
        destined == Some([emu |-> emu,
                          returned_data_destiny |->
                              Some([start |-> ret_offset, end |-> ret_offset + ret_size])])
        resized == IF Len(shared_memory) < ret_size THEN Some(ret_size) ELSE resize_mem
    IN  /\ emu.xregs[T0] = 3
        /\ IF ~get_dram_slice_ok(emu.dram, a0, a0 + AddressLen)
           THEN /\ riscv_emulator' = WithEmu(emu)
                /\ pc' = "panicked"
                /\ UNCHANGED <<next_action, resize_mem>>
           ELSE IF ~get_dram_slice_ok(emu.dram, args_offset, args_offset + args_size)
           THEN /\ riscv_emulator' = destined
                /\ resize_mem' = resized
                /\ pc' = "panicked"
                /\ UNCHANGED next_action
           ELSE /\ riscv_emulator' = destined
                /\ resize_mem' = resized
                /\ next_action' =
                      [tag |-> "Call",
                       inputs |-> [input |-> get_dram_slice(emu.dram, args_offset,
                                                            args_offset + args_size),
                                   gas_limit |-> HostEnv.tx.gas_limit,
                                   target_address |-> address,
                                   bytecode_address |-> address,
                                   caller |-> TargetAddress,
                                   value |-> U256_from_le_bytes(to_le_bytes(value, 8)),
                                   scheme |-> "Call",
                                   is_static |-> FALSE,
                                   is_eof |-> FALSE,
                                   return_memory_offset |-> [start |-> 0, end |-> ret_size]]]
                /\ pc' = "trap_loop"
        /\ UNCHANGED <<instruction_result, storage>>

\* A faulty syscall_revert: the revert carries no output.
syscall_revert_without_output(emu) ==
    /\ emu.xregs[T0] = 4
    /\ riscv_emulator' = WithEmu(emu)
    /\ next_action' =
          [tag |-> "Return",
           result |-> [result |-> "Revert", output |-> << >>, gas |-> gas]]
    /\ pc' = "after_loop"
    /\ UNCHANGED <<instruction_result, storage, resize_mem>>

syscall_revert(emu) ==
    /\ emu.xregs[T0] = 4
    /\ riscv_emulator' = WithEmu(emu)
    /\ next_action' =
          [tag |-> "Return",
           result |-> [result |-> "Revert", output |-> to_le_bytes(0, 4), gas |-> gas]]
    /\ pc' = "after_loop"
    /\ UNCHANGED <<instruction_result, storage, resize_mem>>

syscall_unhandled(emu) ==
    /\ emu.xregs[T0] \notin 0..4
    /\ riscv_emulator' = WithEmu(emu)
    /\ instruction_result' = "Revert"
    /\ pc' = "after_loop"
    /\ UNCHANGED <<next_action, storage, resize_mem>>

other_exception(emu) ==
    /\ riscv_emulator' = WithEmu(emu)
    /\ instruction_result' = "Revert"
    /\ pc' = "after_loop"
    /\ UNCHANGED <<next_action, storage, resize_mem>>

trap_loop ==
    LET run_result == EmuStart(riscv_emulator.val.emu)
        emu == run_result.emu
    IN  /\ pc = "trap_loop"
        /\ last' = Trapped(emu, run_result.exception)
        /\ invoked' = invoked \cup {"riscv"}
        /\ LET call == run_result.exception = "EnvironmentCallFromMMode" /\ emu.xregs[T0] = 3
           IN  /\ resumed' = IF call THEN FALSE
                              ELSE resumed \/ emu.epc > riscv_emulator.val.emu.epc
               /\ first_call' = IF call /\ first_call.tag = "None"
                                THEN Some(emu.xregs) ELSE first_call
        /\ IF run_result.exception = "EnvironmentCallFromMMode"
           THEN \/ syscall_return(emu)
                \/ syscall_sload(emu)
                \/ syscall_sstore(emu)
                \/ syscall_call(emu)
                \/ syscall_revert(emu)
                \/ syscall_unhandled(emu)
           ELSE other_exception(emu)
        /\ UNCHANGED <<bytecode, instruction_pointer, gas, shared_memory, stack,
                       return_data_buffer, returned, caller_memory, answer, entry_result>>

(***************************************************************************)
(* The handlers of the instruction table.                                  *)
(***************************************************************************)
handler(name) ==
    CASE name = "STOP" ->
            /\ instruction_result' = "Stop"
            /\ UNCHANGED next_action
      [] name = "JUMPDEST" ->
            UNCHANGED <<instruction_result, next_action>>
      [] name = "CALL" ->
            /\ instruction_result' = "CallOrCreate"
            /\ next_action' =
                  [tag |-> "Call",
                   inputs |-> [scheme |-> "Call",
                               return_memory_offset |-> [start |-> 0, end |-> 0]]]
      [] name = "CREATE" ->
            /\ instruction_result' = "CallOrCreate"
            /\ next_action' = [tag |-> "Create", inputs |-> [scheme |-> "Create"]]
      [] name = "EOFCREATE" ->
            /\ instruction_result' = "CallOrCreate"
            /\ next_action' = [tag |-> "EOFCreate", inputs |-> [kind |-> "Opcode"]]
      [] name = "RETURN" ->
            /\ instruction_result' = "Return"
            /\ next_action' =
                  [tag |-> "Return",
                   result |-> [result |-> "Return", output |-> << >>, gas |-> gas]]

(***************************************************************************)
(* One turn of the main loop: Interpreter::step, which the analysed        *)
(* bytecode's trailing STOP keeps inside the code.                         *)
(***************************************************************************)
\* A faulty step: the handler runs with the cursor still on its opcode.
step_without_advance ==
    /\ pc = "main_loop"
    /\ instruction_result = "Continue"
    /\ instruction_pointer < Len(bytecode)
    /\ LET opcode == bytecode[instruction_pointer + 1]
       IN  /\ instruction_pointer' = instruction_pointer
           /\ handler(instruction_table[opcode])
           /\ last' = [op |-> "step", opcode |-> opcode, at |-> instruction_pointer,
                       cursor |-> instruction_pointer]
    /\ invoked' = invoked \cup {"legacy"}
    /\ UNCHANGED <<bytecode, gas, shared_memory, stack, return_data_buffer, riscv_emulator,
                   resize_mem, pc, returned, caller_memory, storage, first_call, resumed,
                   answer, entry_result>>

\* A faulty main loop: it steps whatever instruction_result is.
step_while_halted ==
    /\ pc = "main_loop"
    /\ instruction_pointer < Len(bytecode)
    /\ LET opcode == bytecode[instruction_pointer + 1]
       IN  /\ instruction_pointer' = instruction_pointer + 1
           /\ handler(instruction_table[opcode])
           /\ last' = [op |-> "step", opcode |-> opcode, at |-> instruction_pointer,
                       cursor |-> instruction_pointer + 1]
    /\ invoked' = invoked \cup {"legacy"}
    /\ UNCHANGED <<bytecode, gas, shared_memory, stack, return_data_buffer, riscv_emulator,
                   resize_mem, pc, returned, caller_memory, storage, first_call, resumed,
                   answer, entry_result>>

step ==
    /\ pc = "main_loop"
    /\ instruction_result = "Continue"
    /\ instruction_pointer < Len(bytecode)
    /\ LET opcode == bytecode[instruction_pointer + 1]
       IN  /\ instruction_pointer' = instruction_pointer + 1
           /\ handler(instruction_table[opcode])
           /\ last' = [op |-> "step", opcode |-> opcode, at |-> instruction_pointer,
                       cursor |-> instruction_pointer + 1]
    /\ invoked' = invoked \cup {"legacy"}
    /\ UNCHANGED <<bytecode, gas, shared_memory, stack, return_data_buffer, riscv_emulator,
                   resize_mem, pc, returned, caller_memory, storage, first_call, resumed,
                   answer, entry_result>>

(***************************************************************************)
(* Interpreter::run, from the end of the loop to its return: the deferred  *)
(* resize, then the action.                                                *)
(***************************************************************************)
run_exit ==
    /\ \/ pc = "after_loop"
       \/ pc = "main_loop" /\ instruction_result # "Continue"
    /\ \E resized \in IF resize_mem.tag = "Some"
                       THEN resize_memory(shared_memory, gas, resize_mem.val)
                       ELSE {[panics |-> FALSE, success |-> TRUE, gas |-> gas,
                              memory |-> shared_memory]} :
           /\ gas' = resized.gas
           /\ shared_memory' = resized.memory
           /\ IF resized.panics \/ ~resized.success
              THEN /\ pc' = "panicked"
                   /\ UNCHANGED <<next_action, returned>>
              ELSE /\ pc' = "idle"
                   /\ next_action' = NoneV
                   /\ returned' =
                         IF next_action.tag # "None"
                         THEN next_action
                         ELSE [tag |-> "Return",
                               result |-> [result |-> instruction_result,
                                           output |-> << >>,
                                           gas |-> resized.gas]]
    /\ last' = [op |-> "run_exit", ended_by |-> last, memory |-> shared_memory, gas |-> gas]
    /\ answer' = NoneV
    /\ UNCHANGED <<bytecode, instruction_pointer, instruction_result, stack,
                   return_data_buffer, riscv_emulator, resize_mem, caller_memory, storage,
                   invoked, first_call, resumed, entry_result>>

Next ==
    \/ \E outcome \in CallOutcomes : insert_call_outcome(outcome)
    \/ \E outcome \in CreateOutcomes : insert_create_outcome(outcome)
    \/ \E outcome \in EOFCreateOutcomes : insert_eofcreate_outcome(outcome)
    \/ take_memory
    \/ run_enter
    \/ trap_loop
    \/ step
    \/ run_exit

Spec == Init /\ [][Next]_vars

(***************************************************************************)
(* resize_memory on its own: an interpreter at rest holding a buffer of    *)
(* whole words and any gas, resized to any size.                           *)
(***************************************************************************)
MaxWords == 3
Buffers == {Zeros(w * WordSize) : w \in 0..MaxWords}
GasMeters == {Gas_new(n) : n \in 0..MaxGas} \cup {Gas_new(U64Modulus - n) : n \in 1..MaxGas}
NewSizes ==
    {w * WordSize + d : w \in 0..(MaxWords - 1), d \in {0, 1, WordSize - 1}}
    \cup {MaxWords * WordSize}

InitResize ==
    /\ bytecode = <<0>>
    /\ instruction_pointer = 0
    /\ gas \in GasMeters
    /\ instruction_result = "Continue"
    /\ shared_memory \in Buffers
    /\ stack = << >>
    /\ return_data_buffer = << >>
    /\ next_action = NoneV
    /\ riscv_emulator = new_riscv_emulator(bytecode)
    /\ resize_mem = NoneV
    /\ pc = "idle"
    /\ returned = NoneV
    /\ caller_memory = EMPTY_SHARED_MEMORY
    /\ storage = << >>
    /\ last = [op |-> "new"]
    /\ invoked = {}
    /\ first_call = NoneV
    /\ resumed = FALSE
    /\ answer = NoneV
    /\ entry_result = "Continue"

NextResize == \E new_size \in NewSizes : Interpreter_resize_memory(new_size)

SpecResize == InitResize /\ [][NextResize]_vars

(***************************************************************************)
(* What the claims speak of.                                               *)
(***************************************************************************)
Ecalled == last.op = "trap" /\ last.exception = "EnvironmentCallFromMMode"
\* run has just returned an action to its caller.
RunReturned == last.op = "run_exit" /\ pc = "idle"
\* An insert_*_outcome has just returned normally; its argument and the
\* state it started from.
Inserted(op) == last.op = op /\ pc = "idle"
InsertOps == {"insert_call_outcome", "insert_create_outcome", "insert_eofcreate_outcome"}
IsRiscv == bytecode[1] = RiscvMarker
Top(stk) == stk[Len(stk)]

\* The Call action the adapter assembles from a trap's registers.
CallActionOf(xregs, dram) ==
    [tag |-> "Call",
     inputs |-> [input |-> Slice(dram, xregs[A2], xregs[A2] + xregs[A3]),
                 gas_limit |-> HostEnv.tx.gas_limit,
                 target_address |-> Slice(dram, xregs[A0], xregs[A0] + AddressLen),
                 bytecode_address |-> Slice(dram, xregs[A0], xregs[A0] + AddressLen),
                 caller |-> TargetAddress,
                 value |-> U256_from_u64(xregs[A1]),
                 scheme |-> "Call",
                 is_static |-> FALSE,
                 is_eof |-> FALSE,
                 return_memory_offset |-> [start |-> 0, end |-> xregs[A5]]]]
DestinyOf(xregs) == Some([start |-> xregs[A4], end |-> xregs[A4] + xregs[A5]])

(***************************************************************************)
(* C1.  Every run returns a Return action or a suspension action (Call,    *)
(* Create, EOFCreate), and instruction_result is not Continue when it      *)
(* returns, in stack-VM mode and in RISC mode, whatever the traps were.    *)
(***************************************************************************)
C1_RunNeverReturnsOnContinue ==
    RunReturned =>
        /\ returned.tag \in {"Return", "Call", "Create", "EOFCreate"}
        /\ instruction_result # "Continue"

(***************************************************************************)
(* C2.  After insert_call_outcome, insert_create_outcome and               *)
(* insert_eofcreate_outcome return normally, instruction_result is         *)
(* Continue, whatever it was before and whatever the outcome's result is.  *)
(***************************************************************************)
C2_InsertResetsToContinue ==
    \A op \in InsertOps : Inserted(op) => instruction_result = "Continue"

(***************************************************************************)
(* C3.  A Call trap (t0 = 3) ends the trap loop: the emulator is not       *)
(* started again in the same run, the pending action is the Call assembled *)
(* from that trap's registers and returned_data_destiny is a4 .. a4 + a5;  *)
(* run returns that action, and no later trap of the run replaces it or    *)
(* the destiny.                                                            *)
(***************************************************************************)
C3_CallTrapEndsTheLoop ==
    /\ (Ecalled /\ last.xregs[T0] = 3 /\ ~Panicked) =>
          /\ pc = "after_loop"
          /\ next_action = CallActionOf(last.xregs, riscv_emulator.val.emu.dram)
          /\ riscv_emulator.val.returned_data_destiny = DestinyOf(last.xregs)
    /\ (RunReturned /\ first_call.tag = "Some") =>
          /\ returned.tag = "Call"
          /\ returned.inputs.return_memory_offset = [start |-> 0, end |-> first_call.val[A5]]
          /\ riscv_emulator.val.returned_data_destiny = DestinyOf(first_call.val)

\* The outcome just inserted, the state before it, and the bytes of its
\* output that fit the memory range it names.
Outcome == last.outcome
Result == last.outcome.result.result
Was == last.before
Fitting(outcome) == Min(memory_length(outcome), Len(outcome.result.output))
MemoryHoldsPrefix ==
    Slice(caller_memory, memory_start(Outcome), memory_start(Outcome) + Fitting(Outcome))
        = Prefix(Outcome.result.output, Fitting(Outcome))
RemainingCredited == gas.remaining = Was.gas.remaining + Outcome.result.gas.remaining
RefundCredited == gas.refunded = Was.gas.refunded + Outcome.result.gas.refunded
HadRoom == Len(Was.stack) < STACK_LIMIT
Pushed(word) == stack = Append(Was.stack, word)
\* push! on a full stack: nothing is pushed and the stack error is recorded.
Overflowed == stack = Was.stack /\ instruction_result = "StackOverflow"
\* An address zero-extended to 256 bits: twelve zero bytes, then its twenty.
ZeroExtended(opt) ==
    [i \in 1..32 |-> IF i <= 12 \/ opt.tag = "None" THEN 0 ELSE opt.val[i - 12]]

(***************************************************************************)
(* C4.  After insert_call_outcome(mem, O) with a success O: the top of the *)
(* stack is 1, gas remaining grew by O.gas.remaining, gas refunded by      *)
(* O.gas.refunded, and mem holds the prefix of O.output at O.memory_start. *)
(***************************************************************************)
C4_SuccessfulCall ==
    (Inserted("insert_call_outcome") /\ Result \in return_ok) =>
        /\ stack # << >> /\ Top(stack) = U256_from(1)
        /\ RemainingCredited
        /\ RefundCredited
        /\ MemoryHoldsPrefix

\* C4 as amended: the top of the stack is 1 when the stack had room; on a
\* full stack nothing is pushed and StackOverflow is recorded.  The gas and
\* memory parts hold in both cases.
C4_SuccessfulCallWithRoom ==
    (Inserted("insert_call_outcome") /\ Result \in return_ok) =>
        /\ IF HadRoom THEN Pushed(U256_from(1)) ELSE Overflowed
        /\ RemainingCredited
        /\ RefundCredited
        /\ MemoryHoldsPrefix

C4_Witness ==
    /\ Inserted("insert_call_outcome") /\ Result \in return_ok
    /\ HadRoom /\ Top(stack) = U256_from(1)
    /\ Fitting(Outcome) > 0 /\ memory_start(Outcome) > 0
    /\ Outcome.result.gas.remaining > 0 /\ Outcome.result.gas.refunded > 0

(***************************************************************************)
(* C5.  After insert_call_outcome(mem, O) with a revert O: the top of the  *)
(* stack is 0, mem holds the prefix of O.output, gas remaining grew by     *)
(* exactly O.gas.remaining and gas refunded is unchanged.  With an O that  *)
(* is neither success, revert nor FatalExternalError: 0 is pushed, gas and *)
(* mem are unchanged.                                                      *)
(***************************************************************************)
C5_RevertedCall ==
    /\ (Inserted("insert_call_outcome") /\ Result \in return_revert) =>
          /\ stack # << >> /\ Top(stack) = U256_ZERO
          /\ MemoryHoldsPrefix
          /\ RemainingCredited
          /\ gas.refunded = Was.gas.refunded
    /\ (Inserted("insert_call_outcome")
           /\ Result \notin return_ok \cup return_revert \cup {"FatalExternalError"}) =>
          /\ Pushed(U256_ZERO)
          /\ gas = Was.gas
          /\ caller_memory = Was.memory

\* C5 as amended: 0 is pushed when the stack had room; on a full stack
\* nothing is pushed and StackOverflow is recorded.
C5_RevertedCallWithRoom ==
    /\ (Inserted("insert_call_outcome") /\ Result \in return_revert) =>
          /\ IF HadRoom THEN Pushed(U256_ZERO) ELSE Overflowed
          /\ MemoryHoldsPrefix
          /\ RemainingCredited
          /\ gas.refunded = Was.gas.refunded
    /\ (Inserted("insert_call_outcome")
           /\ Result \notin return_ok \cup return_revert \cup {"FatalExternalError"}) =>
          /\ IF HadRoom THEN Pushed(U256_ZERO) ELSE Overflowed
          /\ gas = Was.gas
          /\ caller_memory = Was.memory

C5_Witness ==
    /\ Inserted("insert_call_outcome") /\ Result \in return_revert
    /\ HadRoom /\ Top(stack) = U256_ZERO
    /\ Fitting(Outcome) > 0
    /\ Outcome.result.gas.remaining > 0 /\ Outcome.result.gas.refunded > 0

(***************************************************************************)
(* C6.  After insert_create_outcome(O): with a success O the top of the    *)
(* stack is O.address zero-extended to 256 bits (0 when absent),           *)
(* return_data_buffer is empty, gas remaining grew by O.gas.remaining and  *)
(* gas refunded by O.gas.refunded; with a revert O, return_data_buffer is  *)
(* O.output, the top of the stack is 0, gas remaining grew by              *)
(* O.gas.remaining and gas refunded is unchanged.                          *)
(***************************************************************************)
C6_CreateOutcome ==
    /\ (Inserted("insert_create_outcome") /\ Result \in return_ok) =>
          /\ stack # << >> /\ Top(stack) = ZeroExtended(Outcome.address)
          /\ return_data_buffer = << >>
          /\ RemainingCredited
          /\ RefundCredited
    /\ (Inserted("insert_create_outcome") /\ Result \in return_revert) =>
          /\ return_data_buffer = Outcome.result.output
          /\ stack # << >> /\ Top(stack) = U256_ZERO
          /\ RemainingCredited
          /\ gas.refunded = Was.gas.refunded

\* C6 as amended: the word is pushed and the gas credited when the stack had
\* room; on a full stack nothing is pushed, no gas is credited and
\* StackOverflow is recorded.  The return_data_buffer part holds in both cases.
C6_CreateOutcomeWithRoom ==
    /\ (Inserted("insert_create_outcome") /\ Result \in return_ok) =>
          /\ return_data_buffer = << >>
          /\ IF HadRoom
             THEN Pushed(ZeroExtended(Outcome.address)) /\ RemainingCredited /\ RefundCredited
             ELSE Overflowed /\ gas = Was.gas
    /\ (Inserted("insert_create_outcome") /\ Result \in return_revert) =>
          /\ return_data_buffer = Outcome.result.output
          /\ IF HadRoom
             THEN Pushed(U256_ZERO) /\ RemainingCredited /\ gas.refunded = Was.gas.refunded
             ELSE Overflowed /\ gas = Was.gas

C6_Witness ==
    /\ Inserted("insert_create_outcome") /\ Result \in return_ok
    /\ HadRoom /\ Outcome.address.tag = "Some"
    /\ Top(stack) = ZeroExtended(Outcome.address) /\ Top(stack) # U256_ZERO
    /\ Outcome.result.output # << >>

(***************************************************************************)
(* C7.  After insert_call_outcome, return_data_buffer is the outcome's     *)
(* output for every result.  After insert_create_outcome it is the output  *)
(* when the result is of the revert class and empty otherwise.  After      *)
(* insert_eofcreate_outcome it is the output when the result is exactly    *)
(* Revert and empty otherwise, the other revert-class results included.    *)
(***************************************************************************)
C7_ReturnDataBuffer ==
    /\ Inserted("insert_call_outcome") => return_data_buffer = Outcome.result.output
    /\ Inserted("insert_create_outcome") =>
          /\ Result \in return_revert => return_data_buffer = Outcome.result.output
          /\ Result \notin return_revert => return_data_buffer = << >>
    /\ Inserted("insert_eofcreate_outcome") =>
          /\ Result = "Revert" => return_data_buffer = Outcome.result.output
          /\ Result # "Revert" => return_data_buffer = << >>

C7_Witness ==
    /\ Inserted("insert_eofcreate_outcome")
    /\ Result \in return_revert /\ Result # "Revert"
    /\ Outcome.result.output # << >>
    /\ return_data_buffer = << >>

Answer == answer.val.outcome
HandedOff ==
    /\ last.op = "run_enter" /\ pc = "trap_loop"
    /\ last.destiny.tag = "Some"
    /\ answer.tag = "Some"
    /\ Answer.result.result \in return_ok \cup return_revert
    /\ Answer.memory_offset = answer.val.action.inputs.return_memory_offset
    /\ answer.val.memory = last.memory
Delivered ==
    LET a4 == last.destiny.val.start
        a5 == last.destiny.val.end - last.destiny.val.start
        n == Min(a5, Len(Answer.result.output))
    IN  Slice(riscv_emulator.val.emu.dram, a4, a4 + n) = Prefix(Answer.result.output, n)

(***************************************************************************)
(* C9.  After run returned the Call action of a Call trap with return      *)
(* range [a4, a4 + a5) and insert_call_outcome answered it with a success  *)
(* or revert O, the next run leaves DRAM[a4 .. a4 + min(a5, len(O.output)))*)
(* equal to the first bytes of O.output before resuming the emulator, and  *)
(* the emulator executed no instruction between the trap and the hand-off. *)
(***************************************************************************)
C9_HandOffBeforeAnyInstruction ==
    HandedOff => Delivered /\ ~resumed

(***************************************************************************)
(* C10.  The first bytecode byte fixes the engine: behind 0xFF no stack-VM *)
(* step is ever taken, behind any other byte the emulator is never         *)
(* started, and every run uses exactly one of the two engines.             *)
(***************************************************************************)
C10_ExactlyOneEngine ==
    /\ IsRiscv => "legacy" \notin invoked
    /\ ~IsRiscv => "riscv" \notin invoked
    /\ RunReturned => Cardinality(invoked) = 1

\* C10 as amended: a run uses at most one engine, the one the first byte
\* fixed; it uses none exactly when the bytecode is stack-VM code and the run
\* was entered with instruction_result other than Continue.
C10_AtMostOneEngine ==
    /\ IsRiscv => "legacy" \notin invoked
    /\ ~IsRiscv => "riscv" \notin invoked
    /\ Cardinality(invoked) <= 1
    /\ RunReturned => (invoked = {} <=> (~IsRiscv /\ entry_result # "Continue"))

C10_Witness ==
    /\ RunReturned /\ ~IsRiscv
    /\ entry_result # "Continue" /\ invoked = {}

\* The DRAM of the emulator, and the DRAM slice accesses that fail: the one of
\* a Return trap, the two of a Call trap, the one of the hand-off.
Dram == riscv_emulator.val.emu.dram
OutsideDram(start, len) == ~(start + len <= Len(Dram))
ReturnSliceFailed ==
    /\ Ecalled /\ last.xregs[T0] = 0
    /\ last.xregs[A1] # 0 /\ OutsideDram(last.xregs[A0], last.xregs[A1])
CallSliceFailed ==
    /\ Ecalled /\ last.xregs[T0] = 3
    /\ \/ OutsideDram(last.xregs[A0], AddressLen)
       \/ OutsideDram(last.xregs[A2], last.xregs[A3])
HandOffSliceFailed ==
    /\ last.op = "run_enter" /\ last.destiny.tag = "Some"
    /\ OutsideDram(last.destiny.val.start, last.destiny.val.end - last.destiny.val.start)

(***************************************************************************)
(* C11.  In RISC mode a DRAM slice access that fails, in the Return        *)
(* syscall, the Call syscall or the hand-off, is a contract-level error:   *)
(* it does not fail fatally, the result is Revert and run goes on to       *)
(* return it.                                                              *)
(***************************************************************************)
C11_FailedDramAccessReverts ==
    (ReturnSliceFailed \/ CallSliceFailed \/ HandOffSliceFailed) =>
        /\ ~Panicked
        /\ instruction_result = "Revert"

\* A trap the adapter does not recognise: any exception other than the
\* machine-mode environment call, or an environment call with t0 outside 0..4.
Unrecognised(trap) ==
    /\ trap.op = "trap"
    /\ \/ trap.exception # "EnvironmentCallFromMMode"
       \/ trap.xregs[T0] \notin 0..4
\* The trap that ended the loop of the run that has just returned.
EndedBy == last.ended_by

(***************************************************************************)
(* C12.  In RISC mode a trap other than the machine-mode environment call, *)
(* or an environment call with t0 outside 0..4, terminates execution with  *)
(* Revert: instruction_result becomes Revert, the trap loop ends, and run  *)
(* returns Return{ result: Revert, output: empty }.                        *)
(***************************************************************************)
C12_UnrecognisedTrapReverts ==
    /\ Unrecognised(last) =>
          /\ instruction_result = "Revert"
          /\ pc = "after_loop"
    /\ (RunReturned /\ Unrecognised(EndedBy)) =>
          /\ returned.tag = "Return"
          /\ returned.result.result = "Revert"
          /\ returned.result.output = << >>

\* The loop of the run at its exit was ended by a Return trap whose slice
\* lies inside DRAM, or by a Revert trap.
ReturnTrap(trap) ==
    /\ trap.op = "trap" /\ trap.exception = "EnvironmentCallFromMMode" /\ trap.xregs[T0] = 0
    /\ (trap.xregs[A1] = 0 \/ ~OutsideDram(trap.xregs[A0], trap.xregs[A1]))
RevertTrap(trap) ==
    trap.op = "trap" /\ trap.exception = "EnvironmentCallFromMMode" /\ trap.xregs[T0] = 4
DramBytes(offset, size) == [i \in 1..size |-> Dram[offset + i]]

C14_MemoryIsWholeWords ==
    /\ Len(shared_memory) % 32 = 0
    /\ Len(caller_memory) % 32 = 0

\* A run whose Call trap asked for 33 bytes has returned with 64.
C14_Witness ==
    /\ RunReturned /\ first_call.tag = "Some"
    /\ first_call.val[A5] = 33
    /\ Len(last.memory) = 0
    /\ Len(shared_memory) = 64

(***************************************************************************)
(* C15.  In every reachable state 0 <= stack.len() <= STACK_LIMIT, through *)
(* any sequence of insert_call_outcome, insert_create_outcome and          *)
(* insert_eofcreate_outcome: each one that returns pushes exactly one word *)
(* when the stack held fewer than STACK_LIMIT entries, and when the stack  *)
(* was full the push fails, the length stays and a stack overflow is       *)
(* recorded in instruction_result.                                         *)
(***************************************************************************)
C15_StackWithinLimit ==
    /\ Len(stack) \in 0..STACK_LIMIT
    /\ \A op \in InsertOps :
          Inserted(op) =>
              IF Len(Was.stack) < STACK_LIMIT
              THEN /\ Len(stack) = Len(Was.stack) + 1
                   /\ SubSeq(stack, 1, Len(Was.stack)) = Was.stack
              ELSE /\ Len(stack) = STACK_LIMIT
                   /\ stack = Was.stack
                   /\ instruction_result = "StackOverflow"

C15_Witness ==
    /\ Inserted("insert_eofcreate_outcome")
    /\ Len(Was.stack) = STACK_LIMIT
    /\ Len(stack) = STACK_LIMIT
    /\ instruction_result = "StackOverflow"

WordsFor(size) == (size + 31) \div 32
ExpansionGas(words) == 3 * words + (words * words) \div 512
\* The run at its exit had a Call trap; its first one asked for a5 bytes of a
\* memory of len bytes.
FirstCallSize == first_call.val[A5]
C17_Grown ==
    LET delta == ExpansionGas(WordsFor(FirstCallSize)) - ExpansionGas(WordsFor(Len(last.memory)))
    IN  IF last.gas.remaining >= delta
        THEN /\ pc = "idle"
             /\ Len(shared_memory) = 32 * WordsFor(FirstCallSize)
             /\ Len(shared_memory) >= FirstCallSize
             /\ gas.remaining = last.gas.remaining - delta
        ELSE Panicked

(***************************************************************************)
(* C17.  When a Call trap has a5 greater than the length of the shared     *)
(* memory, the resize to a5 is applied after the trap loop and before run  *)
(* returns: at return the length is a5 rounded up to a multiple of 32 and  *)
(* the expansion cost has been deducted from gas; with too little gas run  *)
(* fails fatally and returns no action.  When a5 is at most the length     *)
(* there is no resize and gas is unchanged.                                *)
(***************************************************************************)
C17_DeferredResize ==
    (last.op = "run_exit" /\ first_call.tag = "Some") =>
        IF FirstCallSize > Len(last.memory)
        THEN C17_Grown
        ELSE /\ pc = "idle"
             /\ shared_memory = last.memory
             /\ gas = last.gas

\* resize_memory(new_size) has just been called: the state it started from,
\* the words asked for and held, and the cost delta as the claim computes it.
Resized == last.op = "resize_memory"
AskedWords == WordsFor(last.new_size)
HeldWords == WordsFor(Len(Was.shared_memory))
Delta == ExpansionGas(AskedWords) - ExpansionGas(HeldWords)
ResizeDone ==
    /\ last.success
    /\ Len(shared_memory) = 32 * AskedWords
    /\ gas.remaining = Was.gas.remaining - Delta
ResizeRefused ==
    /\ ~last.success
    /\ shared_memory = Was.shared_memory
    /\ gas = Was.gas

EOFCreated == Inserted("insert_eofcreate_outcome")
EOFCreateCredits ==
    CASE Result = "ReturnContract" -> RemainingCredited /\ RefundCredited
      [] Result \in return_revert -> RemainingCredited /\ gas.refunded = Was.gas.refunded
      [] OTHER -> gas = Was.gas
EOFCreateWord ==
    IF Result = "ReturnContract" THEN ZeroExtended(Some(Outcome.address)) ELSE U256_ZERO

(***************************************************************************)
(* C19.  insert_eofcreate_outcome treats only ReturnContract as success:   *)
(* it pushes the address zero-extended to 256 bits and credits both        *)
(* O.gas.remaining and O.gas.refunded.  For a revert-class result it       *)
(* pushes 0 and credits O.gas.remaining only.  For every other result but  *)
(* FatalExternalError, the generic successes Stop and Return included, it  *)
(* pushes 0 and leaves gas unchanged.                                      *)
(***************************************************************************)
C19_EOFCreateOutcome ==
    (EOFCreated /\ Result # "FatalExternalError") =>
        /\ Pushed(EOFCreateWord)
        /\ EOFCreateCredits

\* C19 as amended: the word is pushed and the gas credited when the stack had
\* room; on a full stack nothing is pushed, no gas is credited and
\* StackOverflow is recorded.
C19_EOFCreateOutcomeWithRoom ==
    (EOFCreated /\ Result # "FatalExternalError") =>
        IF HadRoom
        THEN Pushed(EOFCreateWord) /\ EOFCreateCredits
        ELSE Overflowed /\ gas = Was.gas

C19_Witness ==
    /\ EOFCreated /\ Result \in {"Stop", "Return"}
    /\ HadRoom
    /\ Top(stack) = U256_ZERO
    /\ gas = Was.gas
    /\ Outcome.result.gas.remaining > 0

\* What the handler of an opcode leaves in instruction_result and
\* next_action when it runs on Continue and no pending action.
ResultOf(name) ==
    CASE name = "STOP" -> "Stop"
      [] name = "JUMPDEST" -> "Continue"
      [] name = "RETURN" -> "Return"
      [] name \in {"CALL", "CREATE", "EOFCREATE"} -> "CallOrCreate"
ActionOf(name) ==
    CASE name = "CALL" -> "Call"
      [] name = "CREATE" -> "Create"
      [] name = "EOFCREATE" -> "EOFCreate"
      [] name = "RETURN" -> "Return"
      [] OTHER -> "None"

(***************************************************************************)
(* C20.  In stack-VM mode, on a code slice ending in the STOP terminator   *)
(* and with handlers that leave the cursor alone, each step invokes        *)
(* exactly the handler table[code[pc]] of the byte at the cursor, with the *)
(* cursor already at pc + 1 when the handler runs; program_counter() stays *)
(* within [0, len(code)] in every reachable state, and the step loop ends  *)
(* no later than the step that executes the terminator.                    *)
(***************************************************************************)
C20_StepDispatch ==
    /\ program_counter \in 0..Len(bytecode)
    /\ last.op = "step" =>
          /\ last.opcode = bytecode[last.at + 1]
          /\ last.cursor = last.at + 1
          /\ program_counter = last.at + 1
          /\ instruction_result = ResultOf(instruction_table[bytecode[last.at + 1]])
          /\ next_action.tag = ActionOf(instruction_table[bytecode[last.at + 1]])
    /\ (pc = "main_loop" /\ instruction_result = "Continue") => program_counter < Len(bytecode)

\* The step that executes the terminator of a code of several bytes.
C20_Witness ==
    /\ last.op = "step"
    /\ last.at > 0 /\ last.at + 1 = Len(bytecode)
    /\ program_counter = Len(bytecode)
    /\ instruction_result = "Stop"

\* A u64 below 2^24 as a 256-bit word, most significant byte first, and the
\* slot of the contract's own storage it names.
Word(v) ==
    [i \in 1..32 |-> IF i = 32 THEN v % 256
                     ELSE IF i = 31 THEN (v \div 256) % 256
                     ELSE IF i = 30 THEN (v \div 65536) % 256
                     ELSE 0]
Slot(key) == <<TargetAddress, Word(key)>>
\* The host's storage before the trap, with one slot written.
Written(slot, word) ==
    [k \in DOMAIN last.storage \cup {slot} |-> IF k = slot THEN word ELSE last.storage[k]]
\* An image doing sstore(1, 5), sload(1) and the Return of the loaded word,
\* and one that overwrites the slot with 300 before it loads.
StoreAndLoad == <<RiscvMarker, 5, 4, 15, 16>>
StoreTwiceAndLoad == <<RiscvMarker, 5, 17, 4, 15, 16>>
Returns(output) ==
    /\ returned.tag = "Return"
    /\ returned.result.result = "Return"
    /\ returned.result.output = output

(***************************************************************************)
(* C21.  In RISC mode the storage syscalls reach the host in trap order,   *)
(* on the contract's target_address: SStore calls                          *)
(* host.sstore(target_address, a0, a1) and the loop continues; SLoad calls *)
(* host.sload(target_address, a0), writes the low 64 bits of the value     *)
(* into a0 on Some, and on None sets Revert and ends the loop.  With a     *)
(* host that stores what is written, sstore(k, v), sload(k) and the Return *)
(* of the loaded word leave v at (target_address, k) and return the        *)
(* little-endian low 64 bits of v.                                         *)
(***************************************************************************)
C21_StorageSyscalls ==
    /\ \A k \in DOMAIN storage : k[1] = TargetAddress
    /\ (Ecalled /\ last.xregs[T0] = 2) =>
          /\ storage = Written(Slot(last.xregs[A0]), Word(last.xregs[A1]))
          /\ pc = "trap_loop"
    /\ (Ecalled /\ last.xregs[T0] = 1) =>
          /\ storage = last.storage
          /\ IF Slot(last.xregs[A0]) \in DOMAIN last.storage
             THEN /\ Word(riscv_emulator.val.emu.xregs[A0]) = last.storage[Slot(last.xregs[A0])]
                  /\ pc = "trap_loop"
             ELSE /\ instruction_result = "Revert"
                  /\ pc = "after_loop"
    /\ (RunReturned /\ ReturnTrap(EndedBy) /\ bytecode = StoreAndLoad) =>
          /\ storage[Slot(1)] = Word(5)
          /\ Returns(<<5, 0, 0, 0, 0, 0, 0, 0>>)
    /\ (RunReturned /\ ReturnTrap(EndedBy) /\ bytecode = StoreTwiceAndLoad) =>
          /\ storage[Slot(1)] = Word(300)
          /\ Returns(<<44, 1, 0, 0, 0, 0, 0, 0>>)

C21_Witness ==
    /\ RunReturned /\ ReturnTrap(EndedBy) /\ bytecode = StoreTwiceAndLoad
    /\ storage[Slot(1)] = Word(300)
    /\ Returns(<<44, 1, 0, 0, 0, 0, 0, 0>>)

(***************************************************************************)
(* C22.  A stack-VM run entered while instruction_result is not Continue   *)
(* invokes no handler and returns Return{result: that instruction_result,  *)
(* output: empty, gas: the current gas}, with the stack, the gas, the      *)
(* cursor and return_data_buffer as they were at entry; when the run       *)
(* before it was entered halted too, both return the same action; and an   *)
(* instruction is stepped only in a run entered at Continue, so after a    *)
(* suspension (a run that returned a Call, Create or EOFCreate action,     *)
(* which leaves CallOrCreate behind) nothing is stepped until an insert    *)
(* has put instruction_result back to Continue.                            *)
(***************************************************************************)
EnteredHalted == ~IsRiscv /\ entry_result # "Continue"
Suspended == ~IsRiscv /\ RunReturned /\ returned.tag \in {"Call", "Create", "EOFCreate"}
C22_HaltedRun ==
    /\ (RunReturned /\ EnteredHalted) =>
          /\ invoked = {}
          /\ EndedBy.op = "run_enter"
          /\ returned = [tag |-> "Return",
                         result |-> [result |-> entry_result, output |-> << >>,
                                     gas |-> EndedBy.gas]]
          /\ stack = EndedBy.stack
          /\ gas = EndedBy.gas
          /\ program_counter = EndedBy.cursor
          /\ return_data_buffer = EndedBy.return_data_buffer
          /\ instruction_result = entry_result
          /\ EndedBy.previous_entry # "Continue" => returned = EndedBy.previous
    /\ (~IsRiscv /\ last.op = "step") => entry_result = "Continue"
    /\ Suspended => instruction_result = "CallOrCreate"
C22_Witness ==
    /\ RunReturned /\ EnteredHalted
    /\ EndedBy.previous_entry # "Continue"
    /\ entry_result = "CallOrCreate"
    /\ stack # << >>
    /\ returned.result.result = "CallOrCreate"

(***************************************************************************)
(* C23.  In RISC mode, whenever run returns, returned_data_destiny is set  *)
(* exactly when the action returned is a Call action; the next run has     *)
(* cleared it before the emulator starts, so it copies the output range of *)
(* a Call at most once, and a run entered after a Return action copies     *)
(* nothing.                                                                *)
(***************************************************************************)
Destiny == riscv_emulator.val.returned_data_destiny
RunEntered == last.op = "run_enter"
C23_DestinyOnlyForCall ==
    /\ (IsRiscv /\ RunReturned) => (Destiny.tag = "Some" <=> returned.tag = "Call")
    /\ (IsRiscv /\ RunEntered) =>
          /\ Destiny.tag = "None"
          /\ last.previous.tag = "Return" => last.destiny.tag = "None"
\* The same, for the runs in which no Return or Revert trap follows a Call trap.
C23_InRunsEndedByTheCall ==
    /\ (IsRiscv /\ RunReturned
           /\ ~(first_call.tag = "Some" /\ (ReturnTrap(EndedBy) \/ RevertTrap(EndedBy)))) =>
          (Destiny.tag = "Some" <=> returned.tag = "Call")
    /\ (IsRiscv /\ RunEntered) => Destiny.tag = "None"
C23_CopyAfterReturn ==
    /\ IsRiscv /\ RunEntered
    /\ last.previous.tag = "Return" /\ last.destiny.tag = "Some"

(***************************************************************************)
(* C24.  resize_memory never shrinks the buffer and never credits gas: for *)
(* every new_size, smaller than the current length included, and every gas *)
(* remaining up to u64::MAX, the length afterwards is at least the length  *)
(* before and gas remaining afterwards is at most gas remaining before;    *)
(* and when new_cost - current_cost is negative, the wrapped u64 value is  *)
(* never applied: the buffer and the gas meter are left as they were.      *)
(***************************************************************************)
C24_NeverShrinks == Resized => Len(shared_memory) >= Len(Was.shared_memory)
C24_NeverCredits == Resized => gas.remaining <= Was.gas.remaining
C24_NeverShrinksNorCredits ==
    /\ C24_NeverShrinks
    /\ C24_NeverCredits
    /\ (Resized /\ Delta < 0) => (shared_memory = Was.shared_memory /\ gas = Was.gas)
\* The wrapped delta applied: a resize to fewer words that returned true.
C24_Shrunk ==
    /\ Resized /\ ~Panicked /\ last.success
    /\ Delta < 0
    /\ Len(shared_memory) < Len(Was.shared_memory)
    /\ gas.remaining = Was.gas.remaining - (U64Modulus + Delta)

====
